---- MODULE Spec2Model ----
(***************************************************************************)
(* A model of the SolidWorks dimension editor (src/main.py): the parameter *)
(* file parser and writer (parse_line, load_data, save_data), the preset   *)
(* table (load_preset_file, generate_presets, the slider index of Simple   *)
(* mode) and the App operations that drive them.                           *)
(*                                                                         *)
(* Text is a sequence of one-character strings.  A file is the sequence of *)
(* lines that readlines() returns for it (every line but possibly the last *)
(* ends with "\n").  A float is a record: a finite value is counted in     *)
(* units of 1/Scale, so that decimal literals with up to five fractional   *)
(* digits are exact; nan and the infinities are values of their own.       *)
(***************************************************************************)
EXTENDS Integers, Sequences, FiniteSets, TLC

\* ------------------------------------------------------------------ text

Q == "\""

NL == "\n"

DigitChars == <<"0", "1", "2", "3", "4", "5", "6", "7", "8", "9">>

IsDigit(c) == \E i \in 1..10 : DigitChars[i] = c

DigitVal(c) == (CHOOSE i \in 1..10 : DigitChars[i] = c) - 1

\* str.strip() / \s of the regular expression: the ASCII whitespace.
IsSpace(c) == c \in {" ", "\t", "\n", "\r"}

RECURSIVE LStrip(_)
LStrip(s) == IF s # <<>> /\ IsSpace(Head(s)) THEN LStrip(Tail(s)) ELSE s

RECURSIVE RStrip(_)
RStrip(s) ==
    IF s # <<>> /\ IsSpace(s[Len(s)]) THEN RStrip(SubSeq(s, 1, Len(s) - 1)) ELSE s

Strip(s) == RStrip(LStrip(s))

EndsWithNL(s) == s # <<>> /\ s[Len(s)] = NL

\* The first position >= i of s that holds no whitespace (Len(s)+1 if none).
RECURSIVE SkipSpaces(_, _)
SkipSpaces(s, i) ==
    IF i <= Len(s) /\ IsSpace(s[i]) THEN SkipSpaces(s, i + 1) ELSE i

\* The first position >= i of s that holds a double quote (Len(s)+1 if none).
RECURSIVE SkipName(_, _)
SkipName(s, i) ==
    IF i <= Len(s) /\ s[i] # Q THEN SkipName(s, i + 1) ELSE i

\* The first position >= i of s that holds neither a digit nor a dot.
RECURSIVE SkipNumber(_, _)
SkipNumber(s, i) ==
    IF i <= Len(s) /\ (IsDigit(s[i]) \/ s[i] = ".") THEN SkipNumber(s, i + 1) ELSE i

\* ---------------------------------------------------------------- floats

Scale == 10 ^ 5

Fin(u) == [k |-> "fin", u |-> u]

NaN == [k |-> "nan", u |-> 0]

Inf(sign) == [k |-> "inf", u |-> sign]

\* What float() raises ValueError on.
NotAFloat == [k |-> "err", u |-> 0]

Abs(n) == IF n < 0 THEN 0 - n ELSE n

\* float.is_integer()
IsInteger(v) == v.k = "fin" /\ v.u % Scale = 0

\* v <= 0 of Python floats: false for nan, true for -inf.
LeqZero(v) == v.k \in {"fin", "inf"} /\ v.u <= 0

\* The number a string of digits writes.
RECURSIVE DigitsValue(_)
DigitsValue(s) ==
    IF s = <<>> THEN 0
    ELSE 10 * DigitsValue(SubSeq(s, 1, Len(s) - 1)) + DigitVal(s[Len(s)])

\* The units a string of fractional digits writes, its first digit weighing w
\* units (digits below one unit are not represented).
RECURSIVE FracValue(_, _)
FracValue(s, w) ==
    IF s = <<>> \/ w = 0 THEN 0
    ELSE DigitVal(Head(s)) * w + FracValue(Tail(s), w \div 10)

AllDigits(s) == \A i \in 1..Len(s) : IsDigit(s[i])

\* The position of the first c in s, Len(s)+1 if there is none.
RECURSIVE Find(_, _, _)
Find(s, c, i) == IF i <= Len(s) /\ s[i] # c THEN Find(s, c, i + 1) ELSE i

\* float() of the digits before and after the dot: at least one digit in all.
DecimalParts(ip, fp) ==
    IF AllDigits(ip) /\ AllDigits(fp) /\ Len(ip) + Len(fp) > 0
    THEN Fin(DigitsValue(ip) * Scale + FracValue(fp, Scale \div 10))
    ELSE NotAFloat

DecimalAt(s, dot) == DecimalParts(SubSeq(s, 1, dot - 1), SubSeq(s, dot + 1, Len(s)))

\* float() of an unsigned decimal literal without exponent: digits with at most
\* one dot.
Decimal(s) == DecimalAt(s, Find(s, ".", 1))

\* The mantissa m times ten to the power the digits xd write, negated if neg.
Scaled(m, neg, xd) ==
    IF m.k = "err" \/ xd = <<>> \/ ~AllDigits(xd) THEN NotAFloat
    ELSE IF neg THEN Fin(m.u \div (10 ^ DigitsValue(xd)))
    ELSE Fin(m.u * (10 ^ DigitsValue(xd)))

\* The exponent part x: [+-]digits.
Exponent(m, x) ==
    IF x # <<>> /\ Head(x) \in {"-", "+"}
    THEN Scaled(m, Head(x) = "-", Tail(x))
    ELSE Scaled(m, FALSE, x)

UnsignedAt(s, e) ==
    IF e > Len(s) THEN Decimal(s)
    ELSE Exponent(Decimal(SubSeq(s, 1, e - 1)), SubSeq(s, e + 1, Len(s)))

\* float() of an unsigned literal: nan, inf, infinity, or a decimal literal
\* with an optional exponent.
Unsigned(s) ==
    IF s = <<"n", "a", "n">> THEN NaN
    ELSE IF s \in {<<"i", "n", "f">>, <<"i", "n", "f", "i", "n", "i", "t", "y">>}
    THEN Inf(1)
    ELSE UnsignedAt(s, Find(s, "e", 1))

Negated(v) == IF v.k \in {"fin", "inf"} THEN [k |-> v.k, u |-> 0 - v.u] ELSE v

Signed(s) ==
    IF s # <<>> /\ Head(s) = "-" THEN Negated(Unsigned(Tail(s)))
    ELSE IF s # <<>> /\ Head(s) = "+" THEN Unsigned(Tail(s))
    ELSE Unsigned(s)

\* float(text): surrounding whitespace and one sign are accepted.
FloatOf(text) == Signed(Strip(text))

\* str(n) of an int n >= 0.
RECURSIVE NatStr(_)
NatStr(n) ==
    IF n < 10 THEN <<DigitChars[n + 1]>>
    ELSE NatStr(n \div 10) \o <<DigitChars[(n % 10) + 1]>>

\* str(n) of an int.
IntStr(n) == IF n < 0 THEN <<"-">> \o NatStr(0 - n) ELSE NatStr(n)

\* The fractional digits of f units, 0 < f < w * 10, the first digit weighing
\* w units: no trailing zeros.
RECURSIVE FracStr(_, _)
FracStr(f, w) ==
    IF f = 0 THEN <<>>
    ELSE <<DigitChars[(f \div w) + 1]>> \o FracStr(f % w, w \div 10)

\* str() of a finite float of a units, a >= 0: "300.0", "300.5", "0.0001", and
\* the exponent form below 1e-4, "1e-05".
MagnitudeStr(a) ==
    IF a % Scale = 0 THEN NatStr(a \div Scale) \o <<".", "0">>
    ELSE IF a < 10 THEN <<DigitChars[a + 1], "e", "-", "0", "5">>
    ELSE NatStr(a \div Scale) \o <<".">> \o FracStr(a % Scale, Scale \div 10)

\* str(v) of a float (repr); "nan", "inf", "-inf".
FloatStr(v) ==
    IF v.k = "nan" THEN <<"n", "a", "n">>
    ELSE IF v.k = "inf" THEN (IF v.u < 0 THEN <<"-">> ELSE <<>>) \o <<"i", "n", "f">>
    ELSE (IF v.u < 0 THEN <<"-">> ELSE <<>>) \o MagnitudeStr(Abs(v.u))

\* f"{int(v) if v.is_integer() else v}"
Clean(v) == IF IsInteger(v) THEN IntStr(v.u \div Scale) ELSE FloatStr(v)

\* ------------------------------------------------------ parameter file

\* What parse_line returns: None, a (name, value) pair, or the ValueError that
\* float() raises on a number field such as "1.2.3".
NoMatch == [k |-> "none", name |-> <<>>, value |-> NotAFloat]

Raised == [k |-> "raise", name |-> <<>>, value |-> NotAFloat]

\* float(m.group(2)) and the pair returned.
MatchValue(name, v) ==
    IF v.k = "err" THEN Raised ELSE [k |-> "entry", name |-> name, value |-> v]

\* ([\d.]+)mm : the number field s[d..e-1], then the unit.
MatchUnit(s, a, b, d, e) ==
    IF e > d /\ e + 1 <= Len(s) /\ s[e] = "m" /\ s[e + 1] = "m"
    THEN MatchValue(SubSeq(s, a + 1, b - 1), FloatOf(SubSeq(s, d, e - 1)))
    ELSE NoMatch

\* \s*=\s* : the equals sign at c.
MatchEquals(s, a, b, c) ==
    IF c <= Len(s) /\ s[c] = "="
    THEN (LET Go(d) == MatchUnit(s, a, b, d, SkipNumber(s, d))
          IN  Go(SkipSpaces(s, c + 1)))
    ELSE NoMatch

\* ([^"]+)" : the name s[a+1..b-1], not empty, and the closing quote at b.
MatchName(s, a, b) ==
    IF b > a + 1 /\ b <= Len(s)
    THEN MatchEquals(s, a, b, SkipSpaces(s, b + 1))
    ELSE NoMatch

\* ^\s*" : the opening quote at a.
MatchQuote(s, a) ==
    IF a <= Len(s) /\ s[a] = Q THEN MatchName(s, a, SkipName(s, a + 1)) ELSE NoMatch

Match(s) == MatchQuote(s, SkipSpaces(s, 1))

\* re.match(r'^\s*"([^"]+)"\s*=\s*([\d.]+)mm', line.strip()), then float() of
\* the second group.  No part of the pattern can give back characters to a
\* later one, so one scan from the left is the match.
parse_line(line) == Match(Strip(line))

\* [p for p in params if p]: the (name, value) pairs of the matching lines.
RECURSIVE ParamsOf(_)
ParamsOf(lines) ==
    IF lines = <<>> THEN <<>>
    ELSE LET p == parse_line(Head(lines))
         IN  (IF p.k = "entry" THEN <<<<p.name, p.value>>>> ELSE <<>>)
                 \o ParamsOf(Tail(lines))

Exists(files, path) == path \in DOMAIN files

\* load_data(file_path) with a path given: the outcome and what it returns.
\* open() raises if there is no such file, readlines() if its bytes are not
\* UTF-8, parse_line on a number field that is no decimal literal.
load_data(files, path) ==
    IF ~Exists(files, path)
    THEN [ok |-> FALSE, exc |-> "FileNotFoundError", params |-> <<>>, lines |-> <<>>]
    ELSE IF ~files[path].utf8
    THEN [ok |-> FALSE, exc |-> "UnicodeDecodeError", params |-> <<>>, lines |-> <<>>]
    ELSE IF \E i \in DOMAIN files[path].lines : parse_line(files[path].lines[i]).k = "raise"
    THEN [ok |-> FALSE, exc |-> "ValueError", params |-> <<>>, lines |-> <<>>]
    ELSE [ok |-> TRUE, exc |-> "", params |-> ParamsOf(files[path].lines),
          lines |-> files[path].lines]

\* The keys of dict(pairs).
Keys(pairs) == {pairs[i][1] : i \in DOMAIN pairs}

\* Variant: the first pair with the name wins.
Lookup_FirstWins(pairs, name) ==
    LET first_i == CHOOSE i \in DOMAIN pairs :
                       /\ pairs[i][1] = name
                       /\ \A j \in DOMAIN pairs : pairs[j][1] = name => j >= i
    IN  pairs[first_i][2]

\* dict(pairs)[name]: the value of the last pair with that name.
Lookup(pairs, name) ==
    LET last_i == CHOOSE i \in DOMAIN pairs :
                      /\ pairs[i][1] = name
                      /\ \A j \in DOMAIN pairs : pairs[j][1] = name => j <= i
    IN  pairs[last_i][2]

\* What stands in the output list for a line on which parse_line raises.
RaisedLine == <<"ValueError">>

\* Variant: every matching line is rebuilt, from its own value when the
\* update list does not hold its name.
OutputLine_RebuildAll(pairs, line) ==
    LET Rewrite(parsed) ==
            IF parsed.k = "raise" THEN RaisedLine
            ELSE IF parsed.k = "entry"
            THEN <<Q>> \o parsed.name \o <<Q, "=", " ">>
                     \o Clean(IF parsed.name \in Keys(pairs)
                              THEN Lookup(pairs, parsed.name) ELSE parsed.value)
                     \o <<"m", "m", NL>>
            ELSE IF EndsWithNL(line) THEN line ELSE line \o <<NL>>
    IN  Rewrite(parse_line(line))

\* Variant: the name of the line is not looked up; every matching line gets
\* the value of the last update.
OutputLine_AnyName(pairs, line) ==
    LET Rewrite(parsed) ==
            IF parsed.k = "raise" THEN RaisedLine
            ELSE IF parsed.k = "entry" /\ pairs # <<>>
            THEN <<Q>> \o parsed.name \o <<Q, "=", " ">>
                     \o Clean(pairs[Len(pairs)][2]) \o <<"m", "m", NL>>
            ELSE IF EndsWithNL(line) THEN line ELSE line \o <<NL>>
    IN  Rewrite(parse_line(line))

\* One iteration of save_data's loop: the line written for an original line.
OutputLine(pairs, line) ==
    LET Rewrite(parsed) ==
            IF parsed.k = "raise" THEN RaisedLine
            ELSE IF parsed.k = "entry" /\ parsed.name \in Keys(pairs)
            THEN <<Q>> \o parsed.name \o <<Q, "=", " ">>
                     \o Clean(Lookup(pairs, parsed.name)) \o <<"m", "m", NL>>
            ELSE IF EndsWithNL(line) THEN line ELSE line \o <<NL>>
    IN  Rewrite(parse_line(line))

\* save_data's output list.
Output(pairs, lines) == [i \in DOMAIN lines |-> OutputLine(pairs, lines[i])]

\* A file written with encoding utf-8-sig: the mark, then the lines.  Every
\* written line ends with "\n" and holds no other, so reading the file back
\* returns the lines as written.
Written(lines) == [bom |-> TRUE, utf8 |-> TRUE, lines |-> lines]

WriteFile(files, path, lines) ==
    [p \in DOMAIN files \cup {path} |-> IF p = path THEN Written(lines) ELSE files[p]]

\* The files after open(file_path, 'w') has truncated the file and only k of
\* the lines have reached it (the mark goes out with the first of them).
WriteInterrupted(files, path, lines, k) ==
    [p \in DOMAIN files \cup {path} |->
        IF p = path THEN [bom |-> k > 0, utf8 |-> TRUE, lines |-> SubSeq(lines, 1, k)]
        ELSE files[p]]

\* save_data(params, original_lines, file_path): the outcome and the files
\* after it.  A ValueError of parse_line leaves the loop before the file is
\* opened; open() raises on the empty path.
save_data(files, pairs, lines, path) ==
    LET Finish(output) ==
            IF \E i \in DOMAIN output : output[i] = RaisedLine
            THEN [ok |-> FALSE, exc |-> "ValueError", files |-> files]
            ELSE IF path = ""
            THEN [ok |-> FALSE, exc |-> "FileNotFoundError", files |-> files]
            ELSE [ok |-> TRUE, exc |-> "", files |-> WriteFile(files, path, output)]
    IN  Finish(Output(pairs, lines))

\* ------------------------------------------------------------- state

VARIABLES
    fs,               \* the files on disk: path |-> [bom, utf8, lines]
    params,           \* App.params: the (name, value) pairs of the document
    original_lines,   \* App.original_lines: the lines the document was read from
    file_path,        \* App.file_path ("" before any load)
    entries,          \* the editor's widgets, in the order they were created
    editor_mode,      \* App.editor_mode: "Advanced" or "Simple"
    loaded_presets,   \* App.loaded_presets: name |-> candidate values
    preset_file_path, \* App.preset_file_path ("" for None)
    preset_entries,   \* App.preset_entries: the rows of the preset generator
    reload_button,    \* whether setup_editor_tab made the Reload button
    last              \* the last operation, its arguments and its outcome

vars == <<fs, params, original_lines, file_path, entries, editor_mode,
          loaded_presets, preset_file_path, preset_entries, reload_button, last>>

NoPresets == [n \in {} |-> <<>>]

\* A message box: its kind (showinfo, showwarning, showerror; "raise" for an
\* exception that leaves a function called on its own), its title and text.
NoDialog == [kind |-> "none", title |-> "", text |-> <<>>]

Dialog(kind, title, text) == [kind |-> kind, title |-> title, text |-> text]

\* What a function called on its own leaves: nothing, or the exception raised.
Outcome(r) == IF r.ok THEN NoDialog ELSE Dialog("raise", r.exc, <<>>)

\* The record of an operation: its name, whether it ended without an error,
\* the message box it showed last, the update list it passed to save_data,
\* and the number of bounded steps taken so far.
Did(op, ok, dialog, updates, step) ==
    [op |-> op, ok |-> ok, dialog |-> dialog, updates |-> updates, step |-> step]

\* --------------------------------------------- the parameter document alone

MaxLines == 2

MaxUpdates == 2

X == <<"X">>

Y == <<"Y">>

\* Lines of a parameter file: written as save_data writes them, without the
\* space, with whitespace and a trailing zero and text after the unit, a
\* comment, a number field that is no decimal literal, a signed number.
LineCanonical == <<Q, "X", Q, "=", " ", "5", "m", "m", NL>>

LineTight == <<Q, "X", Q, "=", "1", "m", "m", NL>>

LineLoose == <<" ", Q, "Y", Q, " ", "=", " ", "2", ".", "5", "0", "m", "m", " ", ";", NL>>

LineComment == <<";", " ", "c", NL>>

LineBadNumber == <<Q, "Y", Q, "=", " ", "1", ".", "2", ".", "3", "m", "m", NL>>

LineSigned == <<Q, "X", Q, "=", " ", "-", "5", "m", "m", NL>>

LinePool == {LineCanonical, LineTight, LineLoose, LineComment, LineBadNumber, LineSigned}

SeqsUpTo(S, n) == UNION {[1..m -> S] : m \in 0..n}

\* The same content with no terminator on its last line.
Unterminated(c) ==
    [i \in DOMAIN c |-> IF i = Len(c) THEN SubSeq(c[i], 1, Len(c[i]) - 1) ELSE c[i]]

\* What readlines() can return: every line ends with "\n", but the last may not.
DocContents ==
    LET full == SeqsUpTo(LinePool, MaxLines)
    IN  full \cup {Unterminated(c) : c \in full \ {<<>>}}

\* 300.0, 300.5 and 0.00001
UpdateValues == {Fin(300 * Scale), Fin(300 * Scale + Scale \div 2), Fin(1)}

UpdateLists == SeqsUpTo({<<n, v>> : n \in {X, Y}, v \in UpdateValues}, MaxUpdates)

DocPath == "room"

DocInit ==
    /\ fs \in {[p \in {DocPath} |-> [bom |-> b, utf8 |-> TRUE, lines |-> c]] :
                   b \in BOOLEAN, c \in DocContents}
    /\ params = <<>>
    /\ original_lines = <<>>
    /\ file_path = ""
    /\ entries = <<>>
    /\ editor_mode = "Advanced"
    /\ loaded_presets = NoPresets
    /\ preset_file_path = ""
    /\ preset_entries = <<>>
    /\ reload_button = FALSE
    /\ last = Did("init", TRUE, NoDialog, <<>>, 0)

\* params, original_lines, file_path = load_data(DocPath): first of the file as
\* it was found, then of the file that save_data wrote.
DocLoad ==
    /\ last.step \in {0, 2}
    /\ \E r \in {load_data(fs, DocPath)} :
           /\ last' = Did("load_data", r.ok, Outcome(r), <<>>, last.step + 1)
           /\ IF r.ok
              THEN /\ params' = r.params
                   /\ original_lines' = r.lines
                   /\ file_path' = DocPath
              ELSE UNCHANGED <<params, original_lines, file_path>>
    /\ UNCHANGED <<fs, entries, editor_mode, loaded_presets, preset_file_path,
                   preset_entries, reload_button>>

\* save_data(updates, original_lines, file_path) on the document just loaded.
DocSave ==
    /\ last.step = 1 /\ last.ok
    /\ \E updates \in UpdateLists :
          \E r \in {save_data(fs, updates, original_lines, file_path)} :
              /\ fs' = r.files
              /\ last' = Did("save_data", r.ok, Outcome(r), updates, 2)
    /\ UNCHANGED <<params, original_lines, file_path, entries, editor_mode,
                   loaded_presets, preset_file_path, preset_entries, reload_button>>

\* save_data on the document just loaded, with the disk failing: open() raises
\* and the file is as it was, or writelines (or the close that flushes it)
\* raises OSError after k of the lines have reached the file.  The run ends
\* there (phase 3).
DocSaveFails ==
    /\ last.step = 1 /\ last.ok
    /\ \E updates \in UpdateLists :
          \E r \in {save_data(fs, updates, original_lines, file_path)} :
              /\ r.ok
              /\ \/ fs' = fs
                 \/ \E k \in 0..Len(r.files[file_path].lines) :
                        fs' = WriteInterrupted(fs, file_path, r.files[file_path].lines, k)
              /\ last' = Did("save_data", FALSE, Dialog("raise", "OSError", <<>>),
                             updates, 3)
    /\ UNCHANGED <<params, original_lines, file_path, entries, editor_mode,
                   loaded_presets, preset_file_path, preset_entries, reload_button>>

DocNext == DocLoad \/ DocSave \/ DocSaveFails

SpecDoc == DocInit /\ [][DocNext]_vars

\* ---------------------------------------- claims on the document alone

\* save_data has just returned normally.
Saved == last.op = "save_data" /\ last.ok

\* The lines save_data wrote.
Out == fs[file_path].lines

\* A line with "\n" appended if it does not end with one.
Terminated(line) == IF EndsWithNL(line) THEN line ELSE line \o <<NL>>

IsEntryLine(line) == parse_line(line).k = "entry"

\* The value of the last pair of the update list that names n.
LastSupplied(updates, n) ==
    updates[CHOOSE i \in DOMAIN updates :
                /\ updates[i][1] = n
                /\ \A j \in DOMAIN updates : j > i => updates[j][1] # n][2]

Only(A) == last.updates # <<>> /\ Keys(last.updates) = {A}

C3_AllOccurrencesRewritten ==
    Saved =>
        \A i \in DOMAIN original_lines :
            (/\ IsEntryLine(original_lines[i])
             /\ parse_line(original_lines[i]).name \in Keys(last.updates))
            => Out[i] = <<Q>> \o parse_line(original_lines[i]).name \o <<Q, "=", " ">>
                   \o Clean(LastSupplied(last.updates, parse_line(original_lines[i]).name))
                   \o <<"m", "m", NL>>

\* X occurs on two lines and was supplied twice with different values: both
\* lines now hold the second value.
C3_Witness ==
    /\ Saved
    /\ original_lines = <<LineCanonical, LineTight>>
    /\ Len(last.updates) = 2
    /\ last.updates[1][1] = X /\ last.updates[2][1] = X
    /\ last.updates[1][2] # last.updates[2][2]
    /\ Out[1] = Out[2]
    /\ Out[1] = <<Q, "X", Q, "=", " ">> \o Clean(last.updates[2][2]) \o <<"m", "m", NL>>

\* The number field of a rewritten line of the given name: what stands
\* between '"<name>"= ' and 'mm\n'.
NumberField(line, name) == SubSeq(line, Len(name) + 5, Len(line) - 3)

\* Digits, with an optional fractional part of digits after one dot.
IsPlainDecimal(t) ==
    /\ t # <<>>
    /\ \A i \in DOMAIN t : IsDigit(t[i]) \/ t[i] = "."
    /\ Cardinality({i \in DOMAIN t : t[i] = "."}) <= 1
    /\ t[1] # "." /\ t[Len(t)] # "."

\* C4 as stated: every rewritten line is "<name>"= <value>mm where <value> is
\* an integer literal for a value without fractional part and otherwise a
\* plain decimal literal without exponent and without trailing zeros.
C4_PlainDecimalRendering ==
    Saved =>
        \A i \in DOMAIN original_lines :
            (/\ IsEntryLine(original_lines[i])
             /\ parse_line(original_lines[i]).name \in Keys(last.updates))
            => \E t \in {NumberField(Out[i], parse_line(original_lines[i]).name)} :
                  \E v \in {LastSupplied(last.updates, parse_line(original_lines[i]).name)} :
                      /\ Out[i] = <<Q>> \o parse_line(original_lines[i]).name
                                      \o <<Q, "=", " ">> \o t \o <<"m", "m", NL>>
                      /\ IsPlainDecimal(t)
                      /\ IsInteger(v) => AllDigits(t)
                      /\ ~IsInteger(v) => (\E j \in DOMAIN t : t[j] = ".") /\ t[Len(t)] # "0"
                      /\ FloatOf(t) = v

\* ------------------------------------------------------------ preset file

\* The place of a float that is not nan on the number line.
Key(v) == IF v.k = "inf" THEN v.u * (2 ^ 30) ELSE v.u

\* a < b and a == b of Python floats: both false when either is nan.
Less(a, b) == a.k # "nan" /\ b.k # "nan" /\ Key(a) < Key(b)

Equal(a, b) == a.k # "nan" /\ b.k # "nan" /\ Key(a) = Key(b)

\* list.sort() / sorted() of a list of fewer than 64 floats, as CPython's
\* listsort does it: count_run finds the run the list starts with (reversed if
\* it descends strictly), binarysort inserts the remaining elements one by
\* one.  Only a < b is ever asked, so a list in which no element is less than
\* its predecessor is left as it is.
RECURSIVE RunEnd(_, _, _)
RunEnd(vs, n, descending) ==
    IF n < Len(vs) /\ (Less(vs[n + 1], vs[n]) = descending)
    THEN RunEnd(vs, n + 1, descending)
    ELSE n

Reverse(s) == [i \in DOMAIN s |-> s[Len(s) + 1 - i]]

\* binarysort's search for the place of pivot among vs[l+1..r].
RECURSIVE BinarySlot(_, _, _, _)
BinarySlot(vs, pivot, l, r) ==
    IF l >= r THEN l
    ELSE IF Less(pivot, vs[l + (r - l) \div 2 + 1])
    THEN BinarySlot(vs, pivot, l, l + (r - l) \div 2)
    ELSE BinarySlot(vs, pivot, l + (r - l) \div 2 + 1, r)

MovedTo(vs, start, l) ==
    SubSeq(vs, 1, l) \o <<vs[start + 1]>> \o SubSeq(vs, l + 1, start)
        \o SubSeq(vs, start + 2, Len(vs))

RECURSIVE BinarySort(_, _)
BinarySort(vs, start) ==
    IF start >= Len(vs) THEN vs
    ELSE BinarySort(MovedTo(vs, start, BinarySlot(vs, vs[start + 1], 0, start)), start + 1)

SortedRun(vs, descending, n) ==
    BinarySort(IF descending THEN Reverse(SubSeq(vs, 1, n)) \o SubSeq(vs, n + 1, Len(vs))
               ELSE vs, n)

SortedFrom(vs, descending) == SortedRun(vs, descending, RunEnd(vs, 2, descending))

Sorted(vs) == IF Len(vs) < 2 THEN vs ELSE SortedFrom(vs, Less(vs[2], vs[1]))

\* s.split(c), from the position i of the next c on.
RECURSIVE SplitAt(_, _, _)
SplitAt(s, c, i) ==
    IF i > Len(s) THEN <<s>>
    ELSE <<SubSeq(s, 1, i - 1)>>
             \o SplitAt(SubSeq(s, i + 1, Len(s)), c, Find(SubSeq(s, i + 1, Len(s)), c, 1))

Split(s, c) == SplitAt(s, c, Find(s, c, 1))

\* [float(v.strip()) for v in pieces if v.strip()]
RECURSIVE Floats(_)
Floats(pieces) ==
    IF pieces = <<>> THEN <<>>
    ELSE (IF Strip(Head(pieces)) = <<>> THEN <<>> ELSE <<FloatOf(Head(pieces))>>)
             \o Floats(Tail(pieces))

\* What a line of a preset file contributes: nothing (a comment, an empty
\* line, a line without '=' or without values), nothing because float()
\* raised ValueError on one of its values, or an entry.
NoEntry(why) == [k |-> why, name |-> <<>>, values |-> <<>>]

\* Variant: the values parsed before the first malformed one are adopted.
RECURSIVE GoodPrefix(_)
GoodPrefix(values) ==
    IF values = <<>> \/ Head(values).k = "err" THEN <<>>
    ELSE <<Head(values)>> \o GoodPrefix(Tail(values))

PresetValues_Partial(name, values) ==
    IF GoodPrefix(values) = <<>> THEN NoEntry("malformed")
    ELSE [k |-> "entry", name |-> name, values |-> Sorted(GoodPrefix(values))]

\* values = [...]; if values: loaded_presets[name] = sorted(values)
PresetValues(name, values) ==
    IF \E i \in DOMAIN values : values[i].k = "err" THEN NoEntry("malformed")
    ELSE IF values = <<>> THEN NoEntry("empty")
    ELSE [k |-> "entry", name |-> name, values |-> Sorted(values)]

\* param_name, values_str = line.split('=', 1), both stripped.
PresetAssignment(name, values_str) ==
    IF values_str = <<>> THEN NoEntry("empty")
    ELSE PresetValues(name, Floats(Split(values_str, ",")))

PresetSplit(s, eq) ==
    IF eq > Len(s) THEN NoEntry("no equals")
    ELSE PresetAssignment(Strip(SubSeq(s, 1, eq - 1)), Strip(SubSeq(s, eq + 1, Len(s))))

PresetStripped(s) ==
    IF s = <<>> \/ Head(s) = "#" THEN NoEntry("comment")
    ELSE PresetSplit(s, Find(s, "=", 1))

\* The body of load_preset_file's loop for one line.
PresetLine(line) == PresetStripped(Strip(line))

\* d[name] = values
Put(d, name, values) ==
    [n \in DOMAIN d \cup {name} |-> IF n = name THEN values ELSE d[n]]

PutEntry(d, e) == IF e.k = "entry" THEN Put(d, e.name, e.values) ELSE d

\* load_preset_file's loop over the lines of the file: loaded_presets.
RECURSIVE PresetsOf(_, _)
PresetsOf(lines, d) ==
    IF lines = <<>> THEN d
    ELSE PresetsOf(Tail(lines), PutEntry(d, PresetLine(Head(lines))))

\* abs(x - value): nan if either is nan or both are the same infinity.
Distance(x, v) ==
    IF x.k = "nan" \/ v.k = "nan" THEN NaN
    ELSE IF x.k = "inf" /\ v.k = "inf" THEN (IF x.u = v.u THEN NaN ELSE Inf(1))
    ELSE IF x.k = "inf" \/ v.k = "inf" THEN Inf(1)
    ELSE Fin(Abs(x.u - v.u))

\* min(preset_values, key=lambda x: abs(x - value)): the position of the
\* element min() returns, which is the first one unless a later one has a key
\* less than the key of the best so far.
RECURSIVE MinScan(_, _, _, _)
MinScan(values, v, best, i) ==
    IF i > Len(values) THEN best
    ELSE IF Less(Distance(values[i], v), Distance(values[best], v))
    THEN MinScan(values, v, i, i + 1)
    ELSE MinScan(values, v, best, i + 1)

Closest(values, v) == MinScan(values, v, 1, 2)

\* preset_values.index(preset_values[p]): the first position holding that very
\* object or a float equal to it.
FirstIndex(values, p) ==
    CHOOSE i \in 1..p :
        /\ i = p \/ Equal(values[i], values[p])
        /\ \A j \in 1..(i - 1) : ~Equal(values[j], values[p])

\* preset_values.index(value) for a value that is in the list.
IndexOf(values, v) ==
    CHOOSE i \in DOMAIN values :
        Equal(values[i], v) /\ \A j \in 1..(i - 1) : ~Equal(values[j], v)

\* The slider position create_simple_parameter_area computes for the current
\* value.  Positions count from 0.  (value in preset_values is decided by
\* equality: a current value that is the very nan object of the list, which
\* only update_value_label can put into self.params, is taken as another nan.)
CurrentIndex(values, v) ==
    IF \E i \in DOMAIN values : Equal(values[i], v)
    THEN IndexOf(values, v) - 1
    ELSE FirstIndex(values, Closest(values, v)) - 1

\* ---------------------------------------------------------------- the App

\* The fields of the App that the handlers read and write, the files, and the
\* message box the handler showed last, as one record: a handler is an
\* operator from such a record to such a record.

Show(st, kind, title, text) == [st EXCEPT !.dialog = Dialog(kind, title, text)]

\* A ttk.Entry holding a text, and a SimpleEntry around a slider at position
\* idx over its preset values.  A widget is alive until its canvas is
\* destroyed.
Entry(name, text) ==
    [name |-> name, kind |-> "entry", text |-> text, idx |-> 0, values |-> <<>>,
     alive |-> TRUE]

Slider(name, idx, values) ==
    [name |-> name, kind |-> "slider", text |-> <<>>, idx |-> idx, values |-> values,
     alive |-> TRUE]

\* The keys of a dict built from the pairs, in insertion order.
RECURSIVE KeyOrder(_, _)
KeyOrder(pairs, seen) ==
    IF pairs = <<>> THEN <<>>
    ELSE IF Head(pairs)[1] \in seen THEN KeyOrder(Tail(pairs), seen)
    ELSE <<Head(pairs)[1]>> \o KeyOrder(Tail(pairs), seen \cup {Head(pairs)[1]})

\* self.entries = {}; entries[name] = entry holding the value, for each pair:
\* one entry per name, holding the value of its last pair.
AdvancedEntries(pairs, names) ==
    [i \in DOMAIN names |-> Entry(names[i], Clean(Lookup(pairs, names[i])))]

create_advanced_parameter_area(st) ==
    [st EXCEPT !.entries = AdvancedEntries(st.params, KeyOrder(st.params, {}))]

\* The parameters that have presets.
RECURSIVE PresetParams(_, _)
PresetParams(pairs, presets) ==
    IF pairs = <<>> THEN <<>>
    ELSE (IF Head(pairs)[1] \in DOMAIN presets THEN <<Head(pairs)>> ELSE <<>>)
             \o PresetParams(Tail(pairs), presets)

SliderFor(name, value, preset_values) ==
    Slider(name, CurrentIndex(preset_values, value), preset_values)

\* One slider per parameter with presets; self.entries[name] is the
\* SimpleEntry of the last slider made for the name.
SimpleEntries(preset_params, presets) ==
    [i \in DOMAIN preset_params |->
        SliderFor(preset_params[i][1], preset_params[i][2],
                  Sorted(presets[preset_params[i][1]]))]

SimpleArea(st, preset_params) ==
    IF preset_params = <<>> THEN st
    ELSE [st EXCEPT !.entries = SimpleEntries(preset_params, st.loaded_presets)]

create_simple_parameter_area(st) ==
    SimpleArea(st, PresetParams(st.params, st.loaded_presets))

\* The canvas of the editor is destroyed, and its widgets with it.
Destroyed(ws) == [i \in DOMAIN ws |-> [ws[i] EXCEPT !.alive = FALSE]]

AreaFor(st) ==
    IF st.params = <<>> THEN st
    ELSE IF st.editor_mode = "Simple" THEN create_simple_parameter_area(st)
    ELSE create_advanced_parameter_area(st)

create_parameter_area(st) == AreaFor([st EXCEPT !.entries = Destroyed(st.entries)])

\* sep.join(texts)
RECURSIVE Join(_, _)
Join(texts, sep) ==
    IF texts = <<>> THEN <<>>
    ELSE IF Len(texts) = 1 THEN texts[1]
    ELSE texts[1] \o sep \o Join(Tail(texts), sep)

CleanAll(values) == [i \in DOMAIN values |-> Clean(values[i])]

\* The example text of an empty row, kept as one element.
Placeholder == <<"e.g., 200,300,400,500,600">>

Row(name, presets) ==
    IF name \in DOMAIN presets
    THEN [name |-> name, enabled |-> TRUE, text |-> Join(CleanAll(presets[name]), <<",">>)]
    ELSE [name |-> name, enabled |-> FALSE, text |-> Placeholder]

Rows(names, presets) == [i \in DOMAIN names |-> Row(names[i], presets)]

update_preset_tab(st) ==
    [st EXCEPT !.preset_entries =
        IF st.params = <<>> THEN <<>>
        ELSE Rows(KeyOrder(st.params, {}), st.loaded_presets)]

\* param_count: the lines that assigned an entry, a name counted once for
\* each of its lines.
RECURSIVE ParamCount(_)
ParamCount(lines) ==
    IF lines = <<>> THEN 0
    ELSE (IF PresetLine(Head(lines)).k = "entry" THEN 1 ELSE 0) + ParamCount(Tail(lines))

\* sum(len(values) for values in self.loaded_presets.values())
RECURSIVE TotalOver(_, _)
TotalOver(d, names) ==
    IF names = {} THEN 0
    ELSE Len(d[CHOOSE n \in names : TRUE])
             + TotalOver(d, names \ {CHOOSE n \in names : TRUE})

TotalValues(d) == TotalOver(d, DOMAIN d)

\* The message box that ends load_preset_file: the file, param_count and
\* total_values, or the warning that nothing was loaded.
Loaded(st) ==
    IF DOMAIN st.loaded_presets # {}
    THEN Show(st, "showinfo", "Success",
              <<"Preset file loaded successfully!", "File: ", st.preset_file_path,
                "Parameters: ">> \o NatStr(ParamCount(st.fs[st.preset_file_path].lines))
                  \o <<"Total preset values: ">> \o NatStr(TotalValues(st.loaded_presets)))
    ELSE Show(st, "showwarning", "No Presets", <<"No valid preset data found in the file.">>)

\* load_preset_file(file_path).  Reading raises if the file is missing or not
\* UTF-8; the handler then clears the table and the path.
load_preset_file(st, path) ==
    IF ~Exists(st.fs, path) \/ ~st.fs[path].utf8
    THEN Show([st EXCEPT !.loaded_presets = NoPresets, !.preset_file_path = ""],
              "showerror", "Error", <<"Failed to load preset file:">>)
    ELSE Loaded(update_preset_tab(
             [st EXCEPT !.loaded_presets = PresetsOf(st.fs[path].lines, NoPresets),
                        !.preset_file_path = path]))

\* SimpleEntry.get(): str(self.preset_values[index]), "0" on an IndexError;
\* Entry.get(): the text typed.
Get(w) ==
    IF w.kind = "entry" THEN w.text
    ELSE IF w.idx + 1 \in DOMAIN w.values THEN FloatStr(w.values[w.idx + 1])
    ELSE <<"0">>

\* The dict self.entries: for each name, in the order the names were first
\* inserted, the widget stored last under it.
EntryNames(ws) == KeyOrder([i \in DOMAIN ws |-> <<ws[i].name, i>>], {})

LastNamed(ws, name) ==
    ws[CHOOSE i \in DOMAIN ws :
           ws[i].name = name /\ \A j \in DOMAIN ws : j > i => ws[j].name # name]

EntriesDictOf(ws, names) == [i \in DOMAIN names |-> LastNamed(ws, names[i])]

EntriesDict(ws) == EntriesDictOf(ws, EntryNames(ws))

Rejected(text) == [ok |-> FALSE, updated |-> <<>>, error |-> text]

\* Variant: a value that is not positive is skipped, the others are saved.
RECURSIVE Validate_SkipInvalid(_, _)
Validate_SkipInvalid(ws, updated) ==
    IF ws = <<>> THEN [ok |-> TRUE, updated |-> updated, error |-> <<>>]
    ELSE IF ~Head(ws).alive THEN Rejected(<<"invalid command name">>)
    ELSE IF FloatOf(Get(Head(ws))).k = "err"
    THEN Rejected(<<"could not convert string to float: ">> \o Get(Head(ws)))
    ELSE IF LeqZero(FloatOf(Get(Head(ws)))) THEN Validate_SkipInvalid(Tail(ws), updated)
    ELSE Validate_SkipInvalid(Tail(ws),
                              Append(updated, <<Head(ws).name, FloatOf(Get(Head(ws)))>>))

\* The loop of App.save over self.entries: the list of (name, value) pairs, or
\* the message of the first exception: TclError from a destroyed widget,
\* ValueError from float(), ValueError(f"{name} must be > 0").
RECURSIVE Validate(_, _)
Validate(ws, updated) ==
    LET Checked(w, v) ==
            IF v.k = "err"
            THEN Rejected(<<"could not convert string to float: ">> \o Get(w))
            ELSE IF LeqZero(v) THEN Rejected(w.name \o <<" must be > 0">>)
            ELSE Validate(Tail(ws), Append(updated, <<w.name, v>>))
    IN  IF ws = <<>> THEN [ok |-> TRUE, updated |-> updated, error |-> <<>>]
        ELSE IF ~Head(ws).alive THEN Rejected(<<"invalid command name">>)
        ELSE Checked(Head(ws), FloatOf(Get(Head(ws))))

SaveWritten(st, r) ==
    IF r.ok
    THEN Show([st EXCEPT !.fs = r.files], "showinfo", "Success", <<"Parameters saved!">>)
    ELSE Show(st, "showerror", "Error", <<r.exc>>)

SaveChecked(st, v) ==
    IF v.ok
    THEN SaveWritten([st EXCEPT !.updated = v.updated],
                     save_data(st.fs, v.updated, st.original_lines, st.file_path))
    ELSE Show(st, "showerror", "Error", v.error)

\* App.save
save(st) == SaveChecked([st EXCEPT !.updated = <<>>], Validate(EntriesDict(st.entries), <<>>))

Switched(st, mode) == create_parameter_area([st EXCEPT !.editor_mode = mode])

EnterSimple(st) ==
    IF DOMAIN st.loaded_presets = {}
    THEN Show(st, "showwarning", "No Presets", <<"Simple mode requires a preset file.">>)
    ELSE Switched(st, "Simple")

\* App.toggle_editor_mode
toggle_editor_mode(st) ==
    IF st.editor_mode # "Advanced" THEN Switched(st, "Advanced")
    ELSE IF DOMAIN st.loaded_presets # {} THEN Switched(st, "Simple")
    ELSE IF Exists(st.fs, "presets") THEN EnterSimple(load_preset_file(st, "presets"))
    ELSE EnterSimple(st)

\* A browse_file that ties the preset table to the document and drops it on
\* a switch.
Browsed_DropsPresets(st, path, r) ==
    IF r.ok
    THEN update_preset_tab(create_parameter_area(
             [st EXCEPT !.params = r.params, !.original_lines = r.lines,
                        !.file_path = path, !.loaded_presets = NoPresets,
                        !.preset_file_path = ""]))
    ELSE Show(st, "showerror", "Error", <<"Failed to load file:", r.exc>>)

Browsed(st, path, r) ==
    IF r.ok
    THEN update_preset_tab(create_parameter_area(
             [st EXCEPT !.params = r.params, !.original_lines = r.lines,
                        !.file_path = path]))
    ELSE Show(st, "showerror", "Error", <<"Failed to load file:", r.exc>>)

\* App.browse_file, the dialog having returned the path
browse_file(st, path) == Browsed(st, path, load_data(st.fs, path))

Reloaded(st, r) ==
    IF r.ok
    THEN Show(create_parameter_area(
                  [st EXCEPT !.params = r.params, !.original_lines = r.lines]),
              "showinfo", "Success", <<"File reloaded!">>)
    ELSE Show(st, "showerror", "Error", <<"Failed to reload file:", r.exc>>)

\* App.reload_file
reload_file(st) ==
    IF st.file_path = "" THEN st ELSE Reloaded(st, load_data(st.fs, st.file_path))

\* The preset file looked for: <base>_presets.txt, <base>_preset.txt,
\* <base>_p.txt of the parameter file, then presets.txt; "" if none exists.
DefaultPresetPath(files, path) ==
    IF path # "" /\ Exists(files, path \o "_presets") THEN path \o "_presets"
    ELSE IF path # "" /\ Exists(files, path \o "_preset") THEN path \o "_preset"
    ELSE IF path # "" /\ Exists(files, path \o "_p") THEN path \o "_p"
    ELSE IF Exists(files, "presets") THEN "presets"
    ELSE ""

DefaultPreset(st, found) ==
    IF found # "" THEN load_preset_file(st, found)
    ELSE update_preset_tab(
             Show([st EXCEPT !.preset_file_path = "", !.loaded_presets = NoPresets],
                  "showinfo", "No Preset File", <<"No preset file found.">>))

\* App.load_default_preset
load_default_preset(st) == DefaultPreset(st, DefaultPresetPath(st.fs, st.file_path))

\* App.browse_preset_file, the dialog having returned the path
browse_preset_file(st, path) == load_preset_file(st, path)

\* What a row of the preset generator contributes to generate_presets: it is
\* skipped (not enabled, or no text), reported in validation_errors, or gives
\* the sorted values of preset_data[name].
RowParsed(row, values) ==
    IF \E i \in DOMAIN values : values[i].k = "err"
    THEN [k |-> "error", name |-> row.name, values |-> <<>>]
    ELSE IF values = <<>> THEN [k |-> "error", name |-> row.name, values |-> <<>>]
    ELSE [k |-> "data", name |-> row.name, values |-> Sorted(values)]

RowText(row, values_text) ==
    IF values_text = Placeholder THEN [k |-> "error", name |-> row.name, values |-> <<>>]
    ELSE IF values_text = <<>> THEN [k |-> "skip", name |-> row.name, values |-> <<>>]
    ELSE RowParsed(row, Floats(Split(values_text, ",")))

RowData(row) ==
    IF ~row.enabled THEN [k |-> "skip", name |-> row.name, values |-> <<>>]
    ELSE RowText(row, Strip(row.text))

RowsData(rows) == [i \in DOMAIN rows |-> RowData(rows[i])]

\* preset_data, in the order of its keys: the (name, values) pairs.
RECURSIVE PresetData(_)
PresetData(data) ==
    IF data = <<>> THEN <<>>
    ELSE (IF Head(data).k = "data" THEN <<<<Head(data).name, Head(data).values>>>> ELSE <<>>)
             \o PresetData(Tail(data))

\* The comment texts of a generated preset file, each kept as one element.
Comment(text) == <<"#", text, NL>>

RECURSIVE CountValues(_)
CountValues(preset_data) ==
    IF preset_data = <<>> THEN 0
    ELSE Len(Head(preset_data)[2]) + CountValues(Tail(preset_data))

PresetHeader(path) ==
    << Comment(" (rule)"),
       Comment(" PARAMETER PRESET VALUES"),
       Comment(" (rule)"),
       <<"#", " Generated from: ", IF path # "" THEN path ELSE "Unknown", NL>>,
       Comment(" Format: parameter_name = value1,value2,value3"),
       Comment(" Use these presets in Simple Mode for quick parameter selection"),
       Comment(" (rule)"),
       <<NL>> >>

PresetDataLine(pair) ==
    pair[1] \o <<" ", "=", " ">> \o Join(CleanAll(pair[2]), <<",">>) \o <<NL>>

PresetFooter(preset_data) ==
    << <<NL>>,
       Comment(" (rule)"),
       <<"#", " Total parameters with presets: ">> \o NatStr(Len(preset_data)) \o <<NL>>,
       <<"#", " Total preset values: ">> \o NatStr(CountValues(preset_data)) \o <<NL>>,
       <<"#", " (rule)">> >>

\* The lines generate_presets writes.
PresetFileLines(path, preset_data) ==
    PresetHeader(path)
        \o [i \in DOMAIN preset_data |-> PresetDataLine(preset_data[i])]
        \o PresetFooter(preset_data)

\* The file generate_presets writes to: the loaded preset file, or
\* <base>_presets.txt of the parameter file, or presets.txt.
GeneratedPath(st) ==
    IF st.preset_file_path # "" THEN st.preset_file_path
    ELSE IF st.file_path # "" THEN st.file_path \o "_presets"
    ELSE "presets"

Generated(st, path, preset_data) ==
    load_preset_file(
        [st EXCEPT !.fs = WriteFile(st.fs, path, PresetFileLines(st.file_path, preset_data)),
                   !.preset_file_path = path],
        path)

Collected(st, data) ==
    IF \E i \in DOMAIN data : data[i].k = "error"
    THEN Show(st, "showerror", "Validation Error", <<"Please fix the following issues:">>)
    ELSE IF PresetData(data) = <<>>
    THEN Show(st, "showwarning", "No Data", <<"No parameters selected or no valid values provided.">>)
    ELSE Generated(st, GeneratedPath(st), PresetData(data))

\* App.generate_presets
generate_presets(st) ==
    IF st.params = <<>>
    THEN Show(st, "showwarning", "No Parameters", <<"Please load a parameter file first.">>)
    ELSE Collected(st, RowsData(st.preset_entries))

\* update_value_label(index) of the slider of widget w: the first parameter of
\* that name gets the value at the index.
FirstNamed(pairs, name) ==
    CHOOSE j \in DOMAIN pairs :
        pairs[j][1] = name /\ \A i \in DOMAIN pairs : i < j => pairs[i][1] # name

update_value_label(st, w, index) ==
    [st EXCEPT !.entries[w].idx = index,
               !.params =
                   IF \E j \in DOMAIN st.params : st.params[j][1] = st.entries[w].name
                   THEN [st.params EXCEPT ![FirstNamed(st.params, st.entries[w].name)] =
                            <<st.entries[w].name, st.entries[w].values[index + 1]>>]
                   ELSE st.params]

\* ------------------------------------------------------ the App's behaviour

\* The number of steps in which the user types, drags or ticks, and the number
\* of steps that write a file; the handlers that only read are not counted.
MaxEdits == 1

MaxWrites == 1

Edited == [edits |-> last.step.edits + 1, writes |-> last.step.writes]

Wrote == [edits |-> last.step.edits, writes |-> last.step.writes + 1]

\* A document of two parameters around a comment, and one that names X twice.
DocTwoNames == <<LineCanonical, LineComment, LineLoose>>

DocTwice == <<LineTight, LineCanonical>>

\* Preset files: a comment, values of X out of order and repeated, a line of
\* Y with a value that is no number and a later line of Y with a zero; and a
\* file with values of Y alone, one of them nan.
PresetsForX ==
    << Comment(" presets"),
       <<"X", " ", "=", " ", "1", "0", ",", "5", ",", "5", NL>>,
       <<"Y", " ", "=", " ", "1", ",", "a", NL>>,
       <<"Y", "=", "2", ".", "5", ",", "0", NL>> >>

PresetsForY == << <<"Y", "=", "2", ",", "n", "a", "n", ",", "1", NL>> >>

TextFile(lines) == [bom |-> FALSE, utf8 |-> TRUE, lines |-> lines]

\* A file whose bytes are not UTF-8.
Undecodable == [bom |-> FALSE, utf8 |-> FALSE, lines |-> <<>>]

Directory(names, room) ==
    [p \in names |->
        IF p = "room" THEN TextFile(room)
        ELSE IF p = "bad" THEN TextFile(<<LineBadNumber>>)
        ELSE IF p = "junk" THEN Undecodable
        ELSE IF p = "room_presets" THEN TextFile(PresetsForX)
        ELSE TextFile(PresetsForY)]

\* The directories the App is started in: an empty one; a parameter file with
\* its own preset file and an undecodable file; a parameter file with the
\* shared preset file, which names none of its parameters.
AppFiles ==
    { Directory({}, <<>>),
      Directory({"room", "room_presets", "junk"}, DocTwoNames),
      Directory({"room", "presets"}, DocTwice) }

\* What the user types into an entry of the editor.
EntryTexts == {<<"7">>, <<"-", "5">>, <<"a", "b", "c">>, <<"n", "a", "n">>}

\* What the user types into a row of the preset generator.
RowTexts ==
    {<<"3", ",", "1", ",", "3">>, <<"2", ",", "n", "a", "n", ",", "1">>, <<"1", ",", "x">>, <<>>}

\* The App's fields and the files as one record.
Now ==
    [fs |-> fs, params |-> params, original_lines |-> original_lines,
     file_path |-> file_path, entries |-> entries, editor_mode |-> editor_mode,
     loaded_presets |-> loaded_presets, preset_file_path |-> preset_file_path,
     preset_entries |-> preset_entries, dialog |-> NoDialog, updated |-> <<>>]

\* The handler op has run and left the record st.
Becomes(op, st, step) ==
    /\ fs' = st.fs
    /\ params' = st.params
    /\ original_lines' = st.original_lines
    /\ file_path' = st.file_path
    /\ entries' = st.entries
    /\ editor_mode' = st.editor_mode
    /\ loaded_presets' = st.loaded_presets
    /\ preset_file_path' = st.preset_file_path
    /\ preset_entries' = st.preset_entries
    /\ last' = Did(op, st.dialog.kind # "showerror", st.dialog, st.updated, step)
    /\ UNCHANGED reload_button

\* find_file(): some .txt file of the directory; __init__ completes only if
\* load_data does not raise on it (FileNotFoundError alone is caught).
DefaultFiles(files) ==
    IF DOMAIN files = {} THEN {""}
    ELSE {p \in DOMAIN files : load_data(files, p).ok}

\* App.__init__: load_data(), setup_editor_tab(), setup_preset_tab().
Constructed(files, path, r) ==
    update_preset_tab(load_default_preset(create_parameter_area(
        [fs |-> files, params |-> r.params, original_lines |-> r.lines,
         file_path |-> path, entries |-> <<>>, editor_mode |-> "Advanced",
         loaded_presets |-> NoPresets, preset_file_path |-> "",
         preset_entries |-> <<>>, dialog |-> NoDialog, updated |-> <<>>])))

Started(files, path) ==
    IF path = ""
    THEN Constructed(files, "", [params |-> <<>>, lines |-> <<>>])
    ELSE Constructed(files, path, load_data(files, path))

StartedIn(directories) ==
    \E files \in directories : \E path \in DefaultFiles(files) :
        \E st \in {Started(files, path)} :
            /\ fs = st.fs
            /\ params = st.params
            /\ original_lines = st.original_lines
            /\ file_path = st.file_path
            /\ entries = st.entries
            /\ editor_mode = st.editor_mode
            /\ loaded_presets = st.loaded_presets
            /\ preset_file_path = st.preset_file_path
            /\ preset_entries = st.preset_entries
            /\ reload_button = (st.params # <<>>)
            /\ last = Did("init", TRUE, st.dialog, <<>>, [edits |-> 0, writes |-> 0])

Init == StartedIn(AppFiles)

BrowseFile == \E path \in DOMAIN fs : Becomes("browse_file", browse_file(Now, path), last.step)

ReloadFile ==
    /\ reload_button
    /\ \E st \in {reload_file(Now)} : Becomes("reload_file", st, last.step)

ToggleEditorMode ==
    \E st \in {toggle_editor_mode(Now)} : Becomes("toggle_editor_mode", st, last.step)

Save ==
    /\ last.step.writes < MaxWrites
    /\ \E st \in {save(Now)} : Becomes("save", st, Wrote)

LoadDefaultPreset ==
    \E st \in {load_default_preset(Now)} : Becomes("load_default_preset", st, last.step)

BrowsePresetFile ==
    \E path \in DOMAIN fs :
        Becomes("browse_preset_file", browse_preset_file(Now, path), last.step)

GeneratePresets ==
    /\ last.step.writes < MaxWrites
    /\ \E st \in {generate_presets(Now)} : Becomes("generate_presets", st, Wrote)

\* The user types a text into an entry of the Advanced editor.
EditEntry ==
    /\ last.step.edits < MaxEdits
    /\ \E w \in DOMAIN entries : \E text \in EntryTexts :
          /\ entries[w].alive /\ entries[w].kind = "entry"
          /\ Becomes("edit_entry", [Now EXCEPT !.entries[w].text = text], Edited)

\* The user drags a slider of the Simple editor, or Tk reports its position.
MoveSlider ==
    /\ last.step.edits < MaxEdits
    /\ \E w \in DOMAIN entries : \E index \in 0..(Len(entries[w].values) - 1) :
          /\ entries[w].alive /\ entries[w].kind = "slider"
          /\ Becomes("update_value_label", update_value_label(Now, w, index),
                     Edited)

\* The user ticks or unticks a row of the preset generator.
ToggleRow ==
    /\ last.step.edits < MaxEdits
    /\ \E i \in DOMAIN preset_entries :
          Becomes("toggle_row",
                  [Now EXCEPT !.preset_entries[i].enabled = ~preset_entries[i].enabled],
                  Edited)

\* The user types the values of a row of the preset generator.
EditRow ==
    /\ last.step.edits < MaxEdits
    /\ \E i \in DOMAIN preset_entries : \E text \in RowTexts :
          Becomes("edit_row", [Now EXCEPT !.preset_entries[i].text = text], Edited)

Next ==
    \/ BrowseFile
    \/ ReloadFile
    \/ ToggleEditorMode
    \/ Save
    \/ LoadDefaultPreset
    \/ BrowsePresetFile
    \/ GeneratePresets
    \/ EditEntry
    \/ MoveSlider
    \/ ToggleRow
    \/ EditRow

Spec == Init /\ [][Next]_vars

\* ----------------------------------------------------- claims on App.save

\* The widgets of self.entries whose values App.save reads, in dict order.
Submitted == EntriesDict(entries)

Value(w) == FloatOf(Get(w))

IsPositive(v) == v.k = "fin" /\ v.u > 0

\* The text of a message box starts with the name.
Names(text, name) == Len(text) >= Len(name) /\ SubSeq(text, 1, Len(name)) = name

\* C5: if any entry submitted to App.save has a value that is zero or
\* negative, the save is rejected as a whole and no file is written, wherever
\* the offending entry stands among the valid ones.
C5_AllOrNothing ==
    [][(/\ last'.op = "save" /\ last'.step # last.step
        /\ \E i \in DOMAIN Submitted : LeqZero(Value(Submitted[i])))
          => (~last'.ok /\ fs' = fs)]_vars

\* A save was rejected for an entry that is not positive and stands after a
\* valid one, and the file is as it was found.
C5_Witness ==
    /\ last.op = "save" /\ ~last.ok
    /\ \E i, j \in DOMAIN Submitted :
          /\ i < j
          /\ Submitted[i].alive /\ IsPositive(Value(Submitted[i]))
          /\ Submitted[j].alive /\ LeqZero(Value(Submitted[j]))
          /\ last.dialog.text = Submitted[j].name \o <<" must be > 0">>
    /\ ~fs[file_path].bom

\* C6: App.save accepts an update value only if it is a finite positive
\* number: if any submitted value is non-numeric text, NaN, infinite, zero or
\* negative, the save is rejected, nothing is written, and the error shown
\* names an offending parameter.
C6_FinitePositiveOnly ==
    [][(/\ last'.op = "save" /\ last'.step # last.step
        /\ \E i \in DOMAIN Submitted : ~IsPositive(Value(Submitted[i])))
          => (/\ ~last'.ok
              /\ fs' = fs
              /\ \E i \in DOMAIN Submitted :
                    /\ ~IsPositive(Value(Submitted[i]))
                    /\ Names(last'.dialog.text, Submitted[i].name))]_vars

\* ------------------------------------------------- the preset table alone

MaxPresetLines == 2

\* Lines of a preset file: a comment; values of X out of order and repeated;
\* two values of X at the same distance from 5; a value of X that is no
\* number; nan before a number; values of another parameter.
PresetLinePool ==
    { Comment(" presets"),
      <<"X", " ", "=", " ", "1", "0", ",", "5", ",", "5", NL>>,
      <<"X", "=", "4", ",", "6", NL>>,
      <<"X", " ", "=", " ", "1", ",", "a", NL>>,
      <<"X", "=", "n", "a", "n", ",", "7", NL>>,
      <<"Y", "=", "3", NL>> }

\* 5, 7 and 10
CurrentValues == {Fin(5 * Scale), Fin(7 * Scale), Fin(10 * Scale)}

PresetPath == "presets"

\* An App with one parameter X, in Simple mode, before any preset file is read.
PresetInit ==
    /\ fs \in {[p \in {PresetPath} |-> TextFile(c)] :
                  c \in SeqsUpTo(PresetLinePool, MaxPresetLines)}
    /\ params \in {<< <<X, v>> >> : v \in CurrentValues}
    /\ original_lines = <<>>
    /\ file_path = ""
    /\ entries = <<>>
    /\ editor_mode = "Simple"
    /\ loaded_presets = NoPresets
    /\ preset_file_path = ""
    /\ preset_entries = <<>>
    /\ reload_button = FALSE
    /\ last = Did("init", TRUE, NoDialog, <<>>, 0)

PresetLoad ==
    /\ last.step = 0
    /\ \E st \in {load_preset_file(Now, PresetPath)} : Becomes("load_preset_file", st, 1)

PresetArea ==
    /\ last.step = 1
    /\ \E st \in {create_simple_parameter_area(Now)} :
          Becomes("create_simple_parameter_area", st, 2)

PresetNext == PresetLoad \/ PresetArea

SpecPreset == PresetInit /\ [][PresetNext]_vars

\* ------------------------------------------------ claims on the preset table

\* How far a candidate that is a number lies from the current value.
Gap(c, v) == Abs(Key(c) - v.u)

\* The candidate at position i is a number, no candidate is nearer to v, and
\* no candidate as near is smaller.
IsNearest(values, v, i) ==
    /\ values[i].k # "nan"
    /\ \A j \in DOMAIN values :
          values[j].k # "nan" =>
              \/ Gap(values[i], v) < Gap(values[j], v)
              \/ Gap(values[i], v) = Gap(values[j], v) /\ Key(values[i]) <= Key(values[j])

\* C7: for a parameter with a non-empty candidate list and any current value,
\* the slider index computed in Simple mode is the position of a candidate
\* with minimum absolute difference to the current value, the smaller one of
\* two equally near.
C7_IndexResolution ==
    \A w \in DOMAIN entries :
        (last.op = "create_simple_parameter_area" /\ entries[w].kind = "slider")
            => IsNearest(entries[w].values, params[1][2], entries[w].idx + 1)

\* The lines of the preset file read.
PresetFile == fs[PresetPath].lines

HasEquals(s) == \E i \in DOMAIN s : s[i] = "="

\* A data line: not empty, not a comment, with '=' and something after it.
IsDataLine(line) ==
    /\ Strip(line) # <<>> /\ Head(Strip(line)) # "#"
    /\ HasEquals(Strip(line))
    /\ Strip(Split(Strip(line), "=")[2]) # <<>>

\* The pieces between the commas after the first '='.
ListedValues(line) ==
    Split(SubSeq(Strip(line), Find(Strip(line), "=", 1) + 1, Len(Strip(line))), ",")

\* A data line with a listed value on which float() raises.
IsMalformed(line) ==
    /\ IsDataLine(line)
    /\ \E i \in DOMAIN ListedValues(line) :
          /\ Strip(ListedValues(line)[i]) # <<>>
          /\ FloatOf(ListedValues(line)[i]).k = "err"

RECURSIVE WithoutMalformed(_)
WithoutMalformed(lines) ==
    IF lines = <<>> THEN <<>>
    ELSE (IF IsMalformed(Head(lines)) THEN <<>> ELSE <<Head(lines)>>)
             \o WithoutMalformed(Tail(lines))

LineName(line) == Strip(SubSeq(Strip(line), 1, Find(Strip(line), "=", 1) - 1))

\* C8: when load_preset_file reads a file, a data line in which a listed value
\* is not a number contributes nothing: the table is the one the file without
\* such lines gives, so every well-formed line still loads, and a name whose
\* data lines are all malformed has no entry.
C8_MalformedLinesSkipped ==
    last.op = "load_preset_file" =>
        /\ loaded_presets = PresetsOf(WithoutMalformed(PresetFile), NoPresets)
        /\ \A n \in DOMAIN loaded_presets :
              \E i \in DOMAIN PresetFile :
                  /\ IsDataLine(PresetFile[i]) /\ ~IsMalformed(PresetFile[i])
                  /\ LineName(PresetFile[i]) = n
                  /\ loaded_presets[n] = Sorted(Floats(ListedValues(PresetFile[i])))

\* A file with a malformed line of X and, after it, a well-formed line that
\* was loaded; nothing of the malformed line is in the table.
C8_Witness ==
    /\ last.op = "load_preset_file"
    /\ Len(PresetFile) = 2
    /\ IsMalformed(PresetFile[1]) /\ LineName(PresetFile[1]) = X
    /\ IsDataLine(PresetFile[2]) /\ ~IsMalformed(PresetFile[2])
    /\ LineName(PresetFile[2]) \in DOMAIN loaded_presets
    /\ X \notin DOMAIN loaded_presets

\* C9: after any sequence of preset load, browse, load-default and generate
\* operations, every entry of loaded_presets has at least one candidate and
\* its candidates are in ascending order: none is less than one before it.
C9_NonEmptyAscending ==
    \A n \in DOMAIN loaded_presets :
        /\ Len(loaded_presets[n]) >= 1
        /\ \A i, j \in DOMAIN loaded_presets[n] :
              i < j => ~Less(loaded_presets[n][j], loaded_presets[n][i])

\* C10: the candidate sequence of every entry of loaded_presets contains no
\* value twice.
C10_CandidatesUnique ==
    \A n \in DOMAIN loaded_presets :
        \A i, j \in DOMAIN loaded_presets[n] :
            i < j => ~Equal(loaded_presets[n][i], loaded_presets[n][j])

\* What load_preset_file leaves to its caller: the table, the path, the rows
\* of the generator and the message box.
Surface(st) == <<st.loaded_presets, st.preset_file_path, st.preset_entries, st.dialog>>

\* The number of data lines of the file read that failed numeric parsing.
Skipped == Cardinality({i \in DOMAIN PresetFile : IsMalformed(PresetFile[i])})

\* C11: loading a preset file surfaces to the caller the number of malformed
\* data lines that were skipped: what a load that skipped lines leaves differs
\* from what the load of the same file without those lines leaves.
C11_SkippedCountSurfaced ==
    (last.op = "load_preset_file" /\ Skipped > 0) =>
        Surface([Now EXCEPT !.dialog = last.dialog])
            # Surface(load_preset_file(
                  [Now EXCEPT !.fs[PresetPath].lines = WithoutMalformed(PresetFile)],
                  PresetPath))

\* ------------------------------------------------- claims on the App's loads

\* The parameter document in memory is the content of the file at path.
DocumentIs(files, path, ps, ls, fp) ==
    /\ load_data(files, path).ok
    /\ ps = load_data(files, path).params
    /\ ls = load_data(files, path).lines
    /\ fp = path

\* C12: every load is atomic: browse_file, reload_file and load_preset_file
\* either succeed and replace the state in memory by the content of the file,
\* or fail and leave params, original_lines and file_path, respectively
\* loaded_presets and preset_file_path, exactly as they were.
C12_AtomicLoad ==
    [][/\ (last'.op \in {"browse_file", "reload_file"} /\ ~last'.ok)
             => UNCHANGED <<params, original_lines, file_path>>
       /\ (last'.op = "browse_file" /\ last'.ok)
             => \E path \in DOMAIN fs :
                    DocumentIs(fs, path, params', original_lines', file_path')
       /\ (last'.op = "reload_file" /\ last'.ok /\ file_path # "")
             => DocumentIs(fs, file_path, params', original_lines', file_path')
       /\ (last'.op = "browse_preset_file" /\ last'.ok)
             => \E path \in DOMAIN fs :
                    /\ loaded_presets' = PresetsOf(fs[path].lines, NoPresets)
                    /\ preset_file_path' = path
       /\ (last'.dialog.text = <<"Failed to load preset file:">>)
             => UNCHANGED <<loaded_presets, preset_file_path>>]_vars

\* ------------------------------------- further claims on the document alone

\* C13: if writing the parameter file fails at any point during save_data, on
\* open or after any number of lines written, the file still holds the
\* complete content it had before the save.
C13_NoPartialOverwrite ==
    [][(last'.op = "save_data" /\ ~last'.ok) => fs' = fs]_vars

\* C14: the file written by save_data starts with a byte-order mark if and
\* only if the file that load_data read started with one.  (The mark is never
\* part of the first line: the utf-8-sig codec removes it, which is why a file
\* here is its mark and its lines.)
C14_ByteOrderMarkSymmetry ==
    [][(last'.op = "save_data" /\ last'.ok) =>
           (fs'[file_path].bom <=> fs[file_path].bom)]_vars

\* C15: parsing is total: parse_line never raises, so that neither load_data
\* nor save_data fails because of the shape of a line (a number field such as
\* 1.2.3 makes the line an opaque one).
C15_ParsingTotal ==
    last.op \in {"load_data", "save_data"} =>
        /\ \A i \in DOMAIN fs[DocPath].lines : parse_line(fs[DocPath].lines[i]) # Raised
        /\ last.dialog.title # "ValueError"

\* A decimal literal with an optional sign.
IsSignedDecimal(t) ==
    \/ IsPlainDecimal(t)
    \/ t # <<>> /\ Head(t) \in {"+", "-"} /\ IsPlainDecimal(Tail(t))

AllSpaces(s, i, j) == \A k \in i..j : IsSpace(s[k])

\* The ways to read s as "<name>" = <number>mm: the pairs of the name and the
\* number's text (one at most).
FormParts(s) ==
    {<<SubSeq(s, 2, b - 1), SubSeq(s, d, Len(s) - 2)>> :
        <<b, c, d>> \in {t \in (2..Len(s)) \X (3..Len(s)) \X (4..Len(s)) :
            /\ s[1] = Q /\ s[t[1]] = Q
            /\ \A k \in 2..(t[1] - 1) : s[k] # Q
            /\ t[1] < t[2] /\ s[t[2]] = "=" /\ AllSpaces(s, t[1] + 1, t[2] - 1)
            /\ t[2] < t[3] /\ AllSpaces(s, t[2] + 1, t[3] - 1)
            /\ t[3] <= Len(s) - 2
            /\ s[Len(s) - 1] = "m" /\ s[Len(s)] = "m"
            /\ IsSignedDecimal(SubSeq(s, t[3], Len(s) - 2))}}

\* C16: parse_line returns an entry for a line if and only if the line, its
\* leading and trailing whitespace ignored, has the form "<name>" = <number>mm
\* with <number> a signed or unsigned decimal literal; the entry is that name
\* with that number.
C16_RecognitionRule ==
    (last.op = "load_data" /\ last.ok) =>
        \A i \in DOMAIN original_lines :
            /\ IsEntryLine(original_lines[i])
                   <=> FormParts(Strip(original_lines[i])) # {}
            /\ \A f \in FormParts(Strip(original_lines[i])) :
                   /\ parse_line(original_lines[i]).name = f[1]
                   /\ parse_line(original_lines[i]).value = FloatOf(f[2])

\* C17: after every successful load_data the names of the returned entries
\* are pairwise distinct, also when the file holds a name on several matching
\* lines.
C17_EntryNamesUnique ==
    (last.op = "load_data" /\ last.ok) =>
        \A i, j \in DOMAIN params : params[i][1] = params[j][1] => i = j

\* ------------------------------------------------ further claims on the App

\* The rows of the generator that are selected and hold values.
RECURSIVE SelectedRows(_)
SelectedRows(rows) ==
    IF rows = <<>> THEN <<>>
    ELSE (IF Head(rows).enabled /\ Strip(Head(rows).text) # <<>>
          THEN <<Head(rows)>> ELSE <<>>) \o SelectedRows(Tail(rows))

IsComment(line) == line # <<>> /\ Head(line) = "#"

\* The values a data line lists, and the texts it lists them with.
Listed(line) == Floats(ListedValues(line))

ListedTexts(line) ==
    SelectSeq([i \in DOMAIN ListedValues(line) |-> Strip(ListedValues(line)[i])],
              LAMBDA t : t # <<>>)

\* The integer-vs-decimal rule: digits alone for a value without fractional
\* part, a plain decimal literal otherwise.
RenderedByRule(t) ==
    /\ IsSignedDecimal(t)
    /\ AllDigits(IF Head(t) \in {"+", "-"} THEN Tail(t) ELSE t) <=> IsInteger(FloatOf(t))

RECURSIVE TotalListed(_)
TotalListed(lines) ==
    IF lines = <<>> THEN 0 ELSE Len(Listed(Head(lines))) + TotalListed(Tail(lines))

\* The file f is the serialization of the rows: comments first and last, one
\* data line per selected row, in the order of the rows, with the row's values
\* ascending and rendered by the rule, and the footer's counts.
Serialized(f, rows) ==
    LET data == SelectSeq(f, IsDataLine)
        sel  == SelectedRows(rows)
    IN  /\ Len(f) >= 2 /\ IsComment(f[1]) /\ IsComment(f[Len(f)])
        /\ \A i \in DOMAIN f : IsComment(f[i]) \/ Strip(f[i]) = <<>> \/ IsDataLine(f[i])
        /\ Len(data) = Len(sel)
        /\ \A k \in DOMAIN data :
              /\ k \in DOMAIN sel /\ LineName(data[k]) = sel[k].name
              /\ Len(Listed(data[k])) = Len(Floats(Split(Strip(sel[k].text), ",")))
              /\ \A i, j \in DOMAIN Listed(data[k]) :
                    i < j => /\ ~Less(Listed(data[k])[j], Listed(data[k])[i])
                             /\ Listed(data[k])[i].k # "nan"
                             /\ Listed(data[k])[j].k # "nan"
              /\ \A i \in DOMAIN ListedTexts(data[k]) : RenderedByRule(ListedTexts(data[k])[i])
        /\ \E i \in DOMAIN f :
              f[i] = <<"#", " Total parameters with presets: ">> \o NatStr(Len(data)) \o <<NL>>
        /\ \E i \in DOMAIN f :
              f[i] = <<"#", " Total preset values: ">> \o NatStr(TotalListed(data)) \o <<NL>>

\* generate_presets got as far as writing its file.
Generates(l) ==
    /\ l.op = "generate_presets"
    /\ l.dialog.title \notin {"No Parameters", "Validation Error", "No Data"}

\* C18: the file written by generate_presets consists of a '#'-comment header,
\* exactly one data line 'name = v1,v2,...' per selected entry with that
\* entry's values in ascending order and rendered with the integer-vs-decimal
\* rule, and a '#'-comment footer whose counts are the number of entries
\* written and the total number of values written.
C18_PresetSerialization ==
    [][Generates(last') => Serialized(fs'[preset_file_path'].lines, preset_entries)]_vars

\* C19: browse_file and reload_file of the parameter document, whether they
\* succeed or fail, leave loaded_presets and preset_file_path unchanged.
C19_PresetsOutliveSwitch ==
    [][last'.op \in {"browse_file", "reload_file"} =>
           UNCHANGED <<loaded_presets, preset_file_path>>]_vars

\* The document was switched to another file while a preset table was loaded.
C19_Witness ==
    /\ last.op = "browse_file" /\ last.ok
    /\ file_path = "room_presets"
    /\ preset_file_path = "room_presets"
    /\ X \in DOMAIN loaded_presets

\* C20: after a successful App.save the document in memory (params) holds,
\* for every saved name, the value that was written to the file.
C20_SingleSourceOfTruth ==
    (last.op = "save" /\ last.ok) =>
        \A i \in DOMAIN last.updates :
            \E j \in DOMAIN params : params[j] = last.updates[i]

\* ------------------------------------------------------------- round trips

\* C21: after a successful save with updates U, all finite and positive,
\* loading the saved file yields as many entries as before, in the same order;
\* an entry whose name is in U has the value U gives it, every other entry
\* keeps its value: no recognised line becomes unrecognised by being rewritten.
C21_SaveThenLoad ==
    [][(/\ Saved
        /\ \A i \in DOMAIN last.updates : IsPositive(last.updates[i][2])
        /\ last'.op = "load_data")
          => /\ last'.ok
             /\ Len(params') = Len(params)
             /\ \A i \in DOMAIN params :
                   /\ i \in DOMAIN params'
                   /\ params'[i][1] = params[i][1]
                   /\ params'[i][2] =
                          IF \E u \in DOMAIN last.updates : last.updates[u][1] = params[i][1]
                          THEN LastSupplied(last.updates, params[i][1])
                          ELSE params[i][2]]_vars

\* ------------------------------------------------------ claims on the modes

\* C22: when the editor is in Simple mode and a save succeeds, only lines of
\* parameters that have a preset entry are rewritten, each written value is a
\* member of that parameter's candidate list, the candidate at the slider's
\* position, and lines of parameters without presets are left as in the
\* template.
C22_SimpleModeSave ==
    [][(/\ last'.op = "save" /\ last'.ok /\ last'.step # last.step
        /\ editor_mode = "Simple")
          => /\ \A u \in DOMAIN last'.updates :
                   /\ last'.updates[u][1] \in DOMAIN loaded_presets
                   /\ \E k \in DOMAIN loaded_presets[last'.updates[u][1]] :
                          loaded_presets[last'.updates[u][1]][k] = last'.updates[u][2]
                   /\ \E w \in DOMAIN Submitted :
                          /\ Submitted[w].name = last'.updates[u][1]
                          /\ Submitted[w].kind = "slider"
                          /\ Submitted[w].idx + 1 \in DOMAIN Submitted[w].values
                          /\ Submitted[w].values[Submitted[w].idx + 1] = last'.updates[u][2]
             /\ \A i \in DOMAIN original_lines :
                   (/\ IsEntryLine(original_lines[i])
                    /\ parse_line(original_lines[i]).name \notin DOMAIN loaded_presets)
                      => fs'[file_path].lines[i] = Terminated(original_lines[i])]_vars

\* The slider position at which Simple mode reopens after update_value_label
\* has stored the candidate at position index (from 0) as the current value:
\* that object is in the list, so the position is preset_values.index of it.
Reopened(values, index) == FirstIndex(values, index + 1) - 1

\* C23: for every preset entry and every valid slider position i of it,
\* resolving the index of the value found at position i gives i again, so
\* reopening Simple mode after selecting position i shows the slider at i.
C23_IndexValueRoundTrip ==
    \A w \in DOMAIN entries :
        (last.op = "create_simple_parameter_area" /\ entries[w].kind = "slider")
            => \A i \in 0..(Len(entries[w].values) - 1) :
                   Reopened(entries[w].values, i) = i

\* ------------------------------------------------ the preset generator alone

MaxGenEdits == 2

\* Names a parameter file can hold between its quotes: X, #X, A=B and X after
\* a space.
GenNames == {X, <<"#", "X">>, <<"A", "=", "B">>, <<" ", "X">>}

GenLine(name) == <<Q>> \o name \o <<Q, "=", " ", "5", "m", "m", NL>>

\* Directories with one parameter file and no preset file: one parameter, or
\* X and another one.
GenFiles ==
    {Directory({"room"}, <<GenLine(n)>>) : n \in GenNames}
        \cup {Directory({"room"}, <<GenLine(X), GenLine(n)>>) : n \in GenNames \ {X}}

GenInit == StartedIn(GenFiles)

\* The user ticks or unticks a row of the preset generator.
GenToggleRow ==
    /\ last.step.edits < MaxGenEdits
    /\ \E i \in DOMAIN preset_entries :
          Becomes("toggle_row",
                  [Now EXCEPT !.preset_entries[i].enabled = ~preset_entries[i].enabled],
                  Edited)

\* The user types the values of a row of the preset generator.
GenEditRow ==
    /\ last.step.edits < MaxGenEdits
    /\ \E i \in DOMAIN preset_entries : \E text \in RowTexts :
          Becomes("edit_row", [Now EXCEPT !.preset_entries[i].text = text], Edited)

GenNext == GenToggleRow \/ GenEditRow \/ GeneratePresets

SpecGen == GenInit /\ [][GenNext]_vars

\* preset_data of generate_presets as a mapping from name to values.
Mapping(pairs) ==
    [n \in {pairs[i][1] : i \in DOMAIN pairs} |->
        pairs[CHOOSE i \in DOMAIN pairs : pairs[i][1] = n][2]]

\* C24: after generate_presets has written a mapping M of parameter names to
\* sorted values and reloaded the written file, loaded_presets equals M, for
\* every parameter name that can occur in a parameter file, also one that
\* contains '=', starts with '#' or carries whitespace at an end.
C24_GenerateThenLoad ==
    [][Generates(last') =>
           loaded_presets' = Mapping(PresetData(RowsData(preset_entries)))]_vars

\* C25: in every state reachable by mode toggles, preset loads (default,
\* browse, generate) and parameter-file loads, the editor being in Simple mode
\* implies that loaded_presets is not empty; toggle_editor_mode refuses to
\* enter Simple mode when no presets can be loaded and leaves the mode at
\* Advanced.
C25_ModeInvariant ==
    [][/\ editor_mode' = "Simple" => DOMAIN loaded_presets' # {}
       /\ (last'.op = "toggle_editor_mode" /\ editor_mode = "Advanced"
              /\ DOMAIN loaded_presets' = {}) => editor_mode' = "Advanced"]_vars

====
